---- MODULE Spec2Model ----
(***************************************************************************)
(* Model of src/halting.py: the predictor stub will_freeze(f, x) and the   *)
(* counter-example function opposite(f).                                   *)
(*                                                                         *)
(* One behaviour is one top-level call (opposite(f) or will_freeze(f, x)), *)
(* executed statement by statement on a call stack.  The predictor is      *)
(* either the one in the source (body `pass`) or an arbitrary purported    *)
(* implementation, whose outcome on a call is a nondeterministic choice:   *)
(* it returns some value, raises, or never returns; it is taken to have no *)
(* other effect (it writes no output and rebinds nothing).  print is taken *)
(* to succeed (standard output is open and writable).                      *)
(***************************************************************************)
EXTENDS Integers, Sequences, FiniteSets, TLC

\* ---------------------------------------------------------------- bounds
\* Number of most recent lines of standard output the model keeps.
MaxOut == 3

\* ---------------------------------------------------------------- values
\* Python objects passed as arguments: the two functions of the module, a
\* builtin function, and two non-callable values.
Inputs == {"opposite", "will_freeze", "print", "None", "0"}

\* Values a purported predictor may return (bool, None, int).
RetVals == {"True", "False", "None", "0", "1"}

\* The predictor implementations considered: the source's, or any other.
Impls == {"source", "purported"}

\* Python truth value testing, as applied by `if` on line 12.
Truthy(v) == v \notin {"False", "None", "0"}

\* ------------------------------------------------------------- will_freeze
\* Outcomes of one execution of the body of will_freeze.  The source's body
\* is `pass`: the function falls off its end and returns None.
WillFreezeOutcomes_True(impl) ==
    IF impl = "source"
    THEN {[kind |-> "return", val |-> "True"]}
    ELSE {[kind |-> "return", val |-> v] : v \in RetVals}
           \cup {[kind |-> "raise", val |-> "Exception"],
                 [kind |-> "diverge", val |-> "None"]}
WillFreezeOutcomes(impl) ==
    IF impl = "source"
    THEN {[kind |-> "return", val |-> "None"]}
    ELSE {[kind |-> "return", val |-> v] : v \in RetVals}
           \cup {[kind |-> "raise", val |-> "Exception"],
                 [kind |-> "diverge", val |-> "None"]}

\* --------------------------------------------------------------- opposite
\* Line 12: the function object opposite calls (the global will_freeze).
PredictorCallee_Param(f) == f
PredictorCallee(f) == "will_freeze"

\* Line 12: the argument list of that call.
PredictorArgs_Opposite(f) == <<f, "opposite">>
PredictorArgs(f) == <<f, f>>

\* Line 12/14: the branch taken on the predictor's answer v.
OppositeBranch_Swapped(v) == IF Truthy(v) THEN "l15" ELSE "l13"
OppositeBranch(v) == IF Truthy(v) THEN "l13" ELSE "l15"

\* Line 13: the value returned.
OppositeReturnValue_None == "None"
OppositeReturnValue_True == "True"
OppositeReturnValue == "False"

\* Line 15: the loop condition, given the output so far.
LoopCond_Once(out) == Len(out) < 1
LoopCond(out) == TRUE

\* Line 16: the line printed, and the statement executed after it.
Line_Lower == "infinite loop"
Line == "Infinite loop"

AfterPrint_Return == "l13"
AfterPrint == "l15"

\* ------------------------------------------------------------------ state
VARIABLES
    impl,      \* which predictor is installed
    entry,     \* the top-level call: [fn, args]
    stack,     \* call stack, innermost frame last: [fn, args, pc, tmp]
    result,    \* outcome of the top-level call: [kind, val]
    stdout,    \* the last MaxOut lines written to standard output
    wfCalls,   \* number of times opposite has invoked the predictor
    called     \* the distinct calls [callee, args] made by opposite

vars == <<impl, entry, stack, result, stdout, wfCalls, called>>

Frame(fn, args) ==
    [fn |-> fn, args |-> args, tmp |-> "unset",
     pc |-> IF fn = "opposite" THEN "l12" ELSE "l6"]

Entries ==
    {[fn |-> "opposite", args |-> <<f>>] : f \in Inputs}
      \cup {[fn |-> "will_freeze", args |-> <<f, x>>] : f \in Inputs, x \in Inputs}

NoResult == [kind |-> "none", val |-> "None"]

Init ==
    /\ impl \in Impls
    /\ entry \in Entries
    /\ stack = <<Frame(entry.fn, entry.args)>>
    /\ result = NoResult
    /\ stdout = <<>>
    /\ wfCalls = 0
    /\ called = {}

Top == stack[Len(stack)]
Pop == SubSeq(stack, 1, Len(stack) - 1)
Running(fn, pc) == Len(stack) > 0 /\ Top.fn = fn /\ Top.pc = pc
SetTop(s, frame) == [s EXCEPT ![Len(s)] = frame]

\* A frame returns v: to its caller's pending call, or out of the program.
ReturnValue(v) ==
    IF Len(stack) = 1
    THEN /\ stack' = <<>>
         /\ result' = [kind |-> "returned", val |-> v]
    ELSE /\ stack' = SetTop(Pop, [Pop[Len(Pop)] EXCEPT !.tmp = v])
         /\ UNCHANGED result

Write(out, line) ==
    IF Len(out) < MaxOut THEN Append(out, line) ELSE Append(Tail(out), line)

\* Line 12, call: opposite invokes the predictor on (f, f).
OppositeCall ==
    /\ Running("opposite", "l12")
    /\ LET f == Top.args[1] IN
         /\ stack' = Append(SetTop(stack, [Top EXCEPT !.pc = "l12if"]),
                            Frame(PredictorCallee(f), PredictorArgs(f)))
         /\ called' = called \cup
                {[callee |-> PredictorCallee(f), args |-> PredictorArgs(f)]}
    /\ wfCalls' = wfCalls + 1
    /\ UNCHANGED <<impl, entry, result, stdout>>

\* Line 6: the predictor's body runs to an outcome.
WillFreezeReturn ==
    /\ Running("will_freeze", "l6")
    /\ \E o \in WillFreezeOutcomes(impl) :
         /\ o.kind = "return"
         /\ ReturnValue(o.val)
    /\ UNCHANGED <<impl, entry, stdout, wfCalls, called>>

\* A purported predictor raises: the exception unwinds every frame.
WillFreezeRaise ==
    /\ Running("will_freeze", "l6")
    /\ \E o \in WillFreezeOutcomes(impl) :
         /\ o.kind = "raise"
         /\ result' = [kind |-> "raised", val |-> o.val]
    /\ stack' = <<>>
    /\ UNCHANGED <<impl, entry, stdout, wfCalls, called>>

\* A purported predictor never returns: its frame stays on the stack.
WillFreezeDiverge ==
    /\ Running("will_freeze", "l6")
    /\ \E o \in WillFreezeOutcomes(impl) : o.kind = "diverge"
    /\ stack' = SetTop(stack, [Top EXCEPT !.pc = "spin"])
    /\ UNCHANGED <<impl, entry, result, stdout, wfCalls, called>>

\* Line 12/14: the `if` tests the predictor's answer.
OppositeTest ==
    /\ Running("opposite", "l12if")
    /\ stack' = SetTop(stack, [Top EXCEPT !.pc = OppositeBranch(Top.tmp)])
    /\ UNCHANGED <<impl, entry, result, stdout, wfCalls, called>>

\* Line 13: return False.
OppositeReturn ==
    /\ Running("opposite", "l13")
    /\ ReturnValue(OppositeReturnValue)
    /\ UNCHANGED <<impl, entry, stdout, wfCalls, called>>

\* Line 15: `while True`; a false condition would fall off the end of the
\* function, which returns None.
OppositeWhile ==
    /\ Running("opposite", "l15")
    /\ IF LoopCond(stdout)
       THEN /\ stack' = SetTop(stack, [Top EXCEPT !.pc = "l16"])
            /\ UNCHANGED result
       ELSE ReturnValue("None")
    /\ UNCHANGED <<impl, entry, stdout, wfCalls, called>>

\* Line 16: print("Infinite loop").
OppositePrint ==
    /\ Running("opposite", "l16")
    /\ stdout' = Write(stdout, Line)
    /\ called' = called \cup {[callee |-> "print", args |-> <<Line>>]}
    /\ stack' = SetTop(stack, [Top EXCEPT !.pc = AfterPrint])
    /\ UNCHANGED <<impl, entry, result, wfCalls>>

Next ==
    \/ OppositeCall
    \/ WillFreezeReturn
    \/ WillFreezeRaise
    \/ WillFreezeDiverge
    \/ OppositeTest
    \/ OppositeReturn
    \/ OppositeWhile
    \/ OppositePrint

Spec == Init /\ [][Next]_vars

\* A running interpreter executes the next statement: every enabled step of
\* the single call stack is eventually taken.
FairSpec == Spec /\ WF_vars(Next)

\* ------------------------------------------------------- claim vocabulary
IsOpp == entry.fn = "opposite"
F == entry.args[1]
OppLive == IsOpp /\ Len(stack) >= 1
Answered == OppLive /\ stack[1].tmp # "unset"
AnsweredTruthy == Answered /\ Truthy(stack[1].tmp)
AnsweredFalsy == Answered /\ ~Truthy(stack[1].tmp)
InLoop == OppLive /\ Len(stack) = 1 /\ stack[1].pc \in {"l15", "l16"}
Returned == IsOpp /\ result.kind = "returned"
ReturnedFalse == IsOpp /\ result = [kind |-> "returned", val |-> "False"]
SelfApplied == IsOpp /\ F = "opposite"
PredictorCalls == {c \in called : c.callee = "will_freeze"}
\* The loop alternates between these two states, one print in between.
AboutToPrint == Running("opposite", "l16")
JustPrinted ==
    /\ Running("opposite", "l15")
    /\ stdout # <<>>
    /\ stdout[Len(stdout)] = "Infinite loop"

\* C1: whenever the predictor answers the boolean True on
\* will_freeze(opposite, opposite), opposite(opposite) terminates and returns
\* False; whenever it answers False, opposite(opposite) never terminates (it
\* stays on the stack, returns nothing, and again and again is about to
\* print and has just printed).  Either answer
\* is therefore wrong.
C1_Diagonal ==
    /\ (SelfApplied /\ Answered /\ stack[1].tmp = "True") ~> ReturnedFalse
    /\ []((SelfApplied /\ Answered /\ stack[1].tmp = "False")
            => [](result.kind = "none" /\ Len(stack) >= 1))
    /\ (SelfApplied /\ Answered /\ stack[1].tmp = "False") ~> AboutToPrint
    /\ (SelfApplied /\ Answered /\ stack[1].tmp = "False") ~> JustPrinted
C1_Witness ==
    /\ SelfApplied /\ InLoop
    /\ stack[1].tmp = "False"
    /\ Len(stdout) = MaxOut

\* C2: once the predictor call has returned, opposite(f) either returns
\* with no loop iteration executed, or is in the loop and stays there: a
\* return happens only with empty output, and no step leaves the loop.
C2_TwoOutcomes ==
    /\ [](Returned => stdout = <<>>)
    /\ [](Running("opposite", "l13") => stdout = <<>>)
    /\ [][InLoop => InLoop']_vars
    /\ [](Answered => <>(Returned \/ InLoop))
    /\ [](Answered => result.kind # "raised")
C2_Witness ==
    /\ InLoop
    /\ F = "None"
    /\ Len(stdout) = MaxOut
    /\ stack[1].pc = "l15"

\* C3: opposite's first step is the predictor call will_freeze(f, f); before
\* it nothing has happened, and from then on the predictor has been invoked
\* exactly once, with both arguments equal to f.
C3_OneCall ==
    IsOpp =>
      IF Running("opposite", "l12")
      THEN wfCalls = 0 /\ called = {} /\ stdout = <<>>
      ELSE /\ wfCalls = 1
           /\ PredictorCalls = {[callee |-> "will_freeze", args |-> <<F, F>>]}
C3_Witness ==
    /\ InLoop
    /\ F = "print"
    /\ wfCalls = 1
    /\ Len(stdout) = MaxOut

\* C4 as stated: no execution of will_freeze or opposite writes anything
\* outside its own frame, standard output included.
C4_Original == stdout = <<>>

\* C4 amended: will_freeze never writes to standard output; opposite writes
\* to it only at line 16, inside the loop it enters on a falsy answer, where
\* it appends the line "Infinite loop"; a call that finishes has left
\* standard output untouched, and the installed predictor and the call's
\* arguments are never modified.
C4_OnlyLoopPrints ==
    /\ [][stdout' # stdout =>
            /\ Running("opposite", "l16")
            /\ AnsweredFalsy
            /\ stdout' = Write(stdout, "Infinite loop")]_vars
    /\ [](entry.fn = "will_freeze" => stdout = <<>>)
    /\ [](result.kind # "none" => stdout = <<>>)
    /\ [][impl' = impl /\ entry' = entry]_vars
C4_Witness ==
    /\ IsOpp
    /\ Len(stdout) = 1
    /\ Running("opposite", "l15")

\* C5: if the predictor's answer is truthy, opposite(f) terminates, returns
\* False, and has printed nothing.
C5_TruthyReturnsFalse ==
    /\ AnsweredTruthy ~> (ReturnedFalse /\ stdout = <<>>)
    /\ [](AnsweredTruthy => stdout = <<>>)
    /\ [](AnsweredTruthy => [](~InLoop))
C5_Witness ==
    /\ ReturnedFalse
    /\ impl = "purported"
    /\ stdout = <<>>
    /\ wfCalls = 1

\* C6: if the predictor's answer is falsy, opposite(f) never returns, prints
\* infinitely often (the answer stays falsy for ever, and from every such
\* state a print is again about to happen and again has just happened), and
\* every line it emits is exactly "Infinite loop".
C6_FalsyLoopsForever ==
    /\ [](AnsweredFalsy => [](result.kind = "none" /\ Len(stack) >= 1))
    /\ AnsweredFalsy ~> AboutToPrint
    /\ AnsweredFalsy ~> JustPrinted
    /\ [](\A i \in 1..Len(stdout) : stdout[i] = "Infinite loop")
C6_Witness ==
    /\ AnsweredFalsy
    /\ stack[1].tmp = "0"
    /\ stdout = [i \in 1..MaxOut |-> "Infinite loop"]

\* C7: with the source's predictor, will_freeze(f, x) terminates and returns
\* None; opposite receives None, never reaches the return on line 13, never
\* returns, and loops forever.
C7_SourcePredictor ==
    /\ (impl = "source" /\ entry.fn = "will_freeze")
          ~> (result = [kind |-> "returned", val |-> "None"])
    /\ []((impl = "source" /\ entry.fn = "will_freeze" /\ result.kind # "none")
            => result = [kind |-> "returned", val |-> "None"])
    /\ []((impl = "source" /\ IsOpp) =>
            /\ result.kind = "none"
            /\ Len(stack) >= 1
            /\ stack[1].tmp \in {"unset", "None"}
            /\ stack[1].pc # "l13")
    /\ (impl = "source" /\ IsOpp) ~> AboutToPrint
    /\ (impl = "source" /\ IsOpp) ~> JustPrinted
C7_Witness ==
    /\ impl = "source"
    /\ InLoop
    /\ stack[1].tmp = "None"
    /\ Len(stdout) = MaxOut
    /\ stack[1].pc = "l16"

\* C8 as stated: no call made by opposite(f) has f as its callee.
C8_Original == IsOpp => \A c \in called : c.callee # F

\* C8 amended: opposite never applies its parameter.  The only calls it
\* makes are will_freeze(f, f) and print("Infinite loop"), so f is invoked by
\* opposite only when f is will_freeze or print itself; and opposite returns
\* only on a truthy answer and loops only on a falsy one.
C8_NeverAppliesParam ==
    /\ IsOpp =>
         \A c \in called :
            \/ c = [callee |-> "will_freeze", args |-> <<F, F>>]
            \/ c = [callee |-> "print", args |-> <<"Infinite loop">>]
    /\ (IsOpp /\ F \notin {"will_freeze", "print"}) =>
         \A c \in called : c.callee # F
    /\ Running("opposite", "l13") => AnsweredTruthy
    /\ InLoop => AnsweredFalsy
    /\ (IsOpp /\ Len(stack) = 2) => stack[2].fn = "will_freeze"
C8_Witness ==
    /\ SelfApplied
    /\ called = {[callee |-> "will_freeze", args |-> <<F, F>>],
                 [callee |-> "print", args |-> <<"Infinite loop">>]}

\* C9: whenever opposite(f) has returned, the value it returned is False.
C9_OnlyFalse == Returned => result.val = "False"
C9_Witness ==
    /\ Returned
    /\ F = "will_freeze"
    /\ result.val = "False"

====
